---------------------------- MODULE Spec2Model ----------------------------
(***************************************************************************)
(* NewsGuardian.AI backend: the article extractor (UniversalArticleScraper)*)
(* the bounded-concurrency batch enhancement, the TTL article cache and    *)
(* the detail lookup that reads it.                                        *)
(*                                                                         *)
(* Text is a sequence of one-character strings, so that len(), strip(),    *)
(* the regular expressions and the length thresholds act on characters.    *)
(***************************************************************************)
EXTENDS Integers, Sequences, FiniteSets, TLC

VARIABLES
  \* --- extractor (UniversalArticleScraper.scrape_article_content) ---
  fetched,      \* what client.get(url) produced: a page or a failure
  scraped,      \* what scrape_article_content did with it
  \* --- batch enhancement (enhance_articles_with_full_content) ---
  articles,     \* the input list; the dicts are mutated in place
  original,     \* the input list as it was when the call was made
  max_concurrent,
  semaphore,    \* free slots of asyncio.Semaphore(max_concurrent)
  task,         \* per article: position of scrape_with_semaphore
  full_content, \* per article: the value scrape_full_article_content returned
  gathered,     \* per article: what asyncio.gather collected, and when (seq)
  result,       \* the returned list (indices into articles), or "running"
  \* --- article cache and routes ---
  store,        \* redis: key (article id) -> entry
  now,          \* seconds on the redis clock
  ticks,        \* how many times the clock advanced
  issued,       \* ids uuid.uuid4() has produced
  last          \* the last call made on the service and what it answered

extractVars == <<fetched, scraped>>
batchVars == <<articles, original, max_concurrent, semaphore, task, full_content, gathered, result>>
cacheVars == <<store, now, ticks, issued, last>>
vars == <<fetched, scraped, articles, original, max_concurrent, semaphore, task, full_content,
          gathered, result, store, now, ticks, issued, last>>

-----------------------------------------------------------------------------
(* Text *)

Rep(c, n) == [i \in 1..n |-> c]

\* F applied to the value of x: x is evaluated once, before F
ByValue(x, F(_)) == CHOOSE r \in {F(v) : v \in {x}} : TRUE

Whitespace == {" ", "\n", "\t"}

UpperAlpha == <<"A","B","C","D","E","F","G","H","I","J","K","L","M",
                "N","O","P","Q","R","S","T","U","V","W","X","Y","Z">>
LowerAlpha == <<"a","b","c","d","e","f","g","h","i","j","k","l","m",
                "n","o","p","q","r","s","t","u","v","w","x","y","z">>

LowerChar(c) ==
  IF \E i \in 1..26 : UpperAlpha[i] = c
  THEN LowerAlpha[CHOOSE i \in 1..26 : UpperAlpha[i] = c]
  ELSE c

\* str.lower()
Lower(text) == ByValue(text, LAMBDA s : [i \in 1..Len(s) |-> LowerChar(s[i])])

\* str.strip()
Strip(text) ==
  ByValue(text, LAMBDA s :
    IF \A i \in 1..Len(s) : s[i] \in Whitespace THEN <<>>
    ELSE SubSeq(s, CHOOSE i \in 1..Len(s) : s[i] \notin Whitespace /\
                                             \A j \in 1..(i - 1) : s[j] \in Whitespace,
                   CHOOSE i \in 1..Len(s) : s[i] \notin Whitespace /\
                                             \A j \in (i + 1)..Len(s) : s[j] \in Whitespace))

StartsWith(s, p) == Len(p) <= Len(s) /\ SubSeq(s, 1, Len(p)) = p

\* the pattern p occurs in s at position i
OccursAt(s, p, i) == i >= 1 /\ i + Len(p) - 1 <= Len(s) /\ SubSeq(s, i, i + Len(p) - 1) = p

\* re.search of a literal
Contains(text, p) == ByValue(text, LAMBDA s : \E i \in 1..Len(s) : OccursAt(s, p, i))

RECURSIVE JoinParts(_)
\* "\n\n".join(content_parts)
JoinParts(parts) ==
  IF parts = <<>> THEN <<>>
  ELSE IF Len(parts) = 1 THEN parts[1]
  ELSE parts[1] \o <<"\n", "\n">> \o JoinParts(Tail(parts))

RECURSIVE SumLen(_)
SumLen(texts) ==
  IF texts = <<>> THEN 0 ELSE Len(Strip(texts[1])) + SumLen(Tail(texts))

\* Optional[str]: None, or a str
None == [some |-> FALSE, val |-> <<>>]
Some(t) == [some |-> TRUE, val |-> t]
\* Python truth of an Optional[str]: None and "" are false
Truthy(o) == o.some /\ o.val # <<>>

\* what a strategy does: returns (a str or None) or raises
Returned(o) == [raised |-> FALSE, out |-> o]
Raised == [raised |-> TRUE, out |-> None]

-----------------------------------------------------------------------------
(* The parsed page.  scripts and metas are the <script> and <meta>         *)
(* elements in document order; body is the element tree in document order, *)
(* each node naming its parent (0: the root); a <p> node carries its text. *)

Indices(body) == [i \in 1..Len(body) |-> i]

RECURSIVE IsUnder(_, _, _)
\* node j is a proper ancestor of node i
IsUnder(body, i, j) ==
  IF body[i].parent = 0 THEN FALSE
  ELSE body[i].parent = j \/ IsUnder(body, body[i].parent, j)

\* soup.find_all / soup.select: the live nodes satisfying Test, document order
Select(soup, Test(_)) ==
  SelectSeq(Indices(soup.body), LAMBDA i : i \notin soup.gone /\ Test(i))

\* container.find_all("p")
ParagraphsUnder(soup, c) ==
  Select(soup, LAMBDA i : soup.body[i].tag = "p" /\ IsUnder(soup.body, i, c))

\* container.find_all("p", recursive=False)
ParagraphsChildOf(soup, c) ==
  Select(soup, LAMBDA i : soup.body[i].tag = "p" /\ soup.body[i].parent = c)

\* BeautifulSoup(response.text, "html.parser")
Soup(page) == [scripts |-> page.scripts, metas |-> page.metas, body |-> page.body, gone |-> {}]

unwanted_tags ==
  {"script", "style", "nav", "header", "footer", "aside", "advertisement", "ads",
   "social", "share", "comment", "related", "sidebar", "menu"}

unwanted_classes ==
  << <<"a","d">>,
     <<"a","d","s">>,
     <<"a","d","v","e","r","t","i","s","e","m","e","n","t">>,
     <<"s","o","c","i","a","l">>,
     <<"s","h","a","r","e">>,
     <<"s","h","a","r","i","n","g">>,
     <<"c","o","m","m","e","n","t">>,
     <<"c","o","m","m","e","n","t","s">>,
     <<"r","e","l","a","t","e","d">>,
     <<"s","i","d","e","b","a","r">>,
     <<"n","a","v","i","g","a","t","i","o","n">>,
     <<"n","a","v">>,
     <<"m","e","n","u">>,
     <<"f","o","o","t","e","r">>,
     <<"h","e","a","d","e","r">>,
     <<"p","r","o","m","o">>,
     <<"n","e","w","s","l","e","t","t","e","r">> >>

\* find_all(class_=re.compile(pattern, re.I)): the pattern occurs in the class
ClassMatches(cls, pattern) == Contains(Lower(cls), pattern)

\* element.decompose() for every element found by tag name or by class pattern:
\* the element goes, and everything under it
Decomposed(body) ==
  LET hit == {i \in 1..Len(body) :
                \/ body[i].tag \in unwanted_tags
                \/ \E k \in 1..Len(unwanted_classes) :
                     ClassMatches(body[i].cls, unwanted_classes[k])}
  IN {i \in 1..Len(body) : i \in hit \/ \E j \in hit : IsUnder(body, i, j)}

\* the state of the soup after self._clean_soup(soup)
CleanSoup(soup) ==
  [soup EXCEPT !.scripts = SelectSeq(soup.scripts, LAMBDA s : s.tag \notin unwanted_tags),
               !.gone = Decomposed(soup.body)]

-----------------------------------------------------------------------------
(* The five strategies *)

content_fields == <<"articleBody", "text", "description", "content">>

RECURSIVE FirstLongField(_, _)
\* for field in content_fields: the first field that is present, non-empty and
\* longer than 200 characters
FirstLongField(data, k) ==
  IF k > Len(content_fields) THEN None
  ELSE LET v == data[content_fields[k]]
       IN IF Truthy(v) /\ Len(v.val) > 200 THEN v ELSE FirstLongField(data, k + 1)

RECURSIVE JsonLdFrom(_, _)
\* the loop over the ld+json scripts, from the k-th on.  A script's text is
\* json.loads-ed: "malformed" raises JSONDecodeError (continue), an array stands
\* for its first element, and data[0] of an empty array raises IndexError, which
\* only the outer handler catches (the strategy ends with None).
JsonLdFrom(scripts, k) ==
  IF k > Len(scripts) THEN None
  ELSE LET sc == scripts[k]
       IN CASE sc.json = "empty" -> JsonLdFrom(scripts, k + 1)
            [] sc.json = "malformed" -> JsonLdFrom(scripts, k + 1)
            [] sc.json = "array" /\ sc.items = <<>> -> None
            [] OTHER ->
                 LET data == IF sc.json = "array" THEN sc.items[1] ELSE sc.object
                     hit == FirstLongField(data, 1)
                 IN IF hit.some THEN hit ELSE JsonLdFrom(scripts, k + 1)

_extract_by_json_ld(soup) ==
  Returned(JsonLdFrom(SelectSeq(soup.scripts,
                                LAMBDA s : s.tag = "script" /\ s.type = "application/ld+json"),
                      1))

meta_selectors == <<"name=description", "property=og:description", "property=article:content">>

RECURSIVE MetaFrom(_, _)
\* soup.select_one(selector) is the first <meta> carrying the attribute; only that
\* one is looked at
MetaFrom(metas, k) ==
  IF k > Len(meta_selectors) THEN None
  ELSE LET found == SelectSeq(metas, LAMBDA m : m.attr = meta_selectors[k])
       IN IF found # <<>> /\ found[1].content # <<>> /\ Len(found[1].content) > 200
          THEN Some(found[1].content)
          ELSE MetaFrom(metas, k + 1)

_extract_by_meta_tags(soup) == Returned(MetaFrom(soup.metas, 1))

\* self._is_likely_noise(text): the anchored patterns, on text.lower()
noise_prefixes ==
  << <<"r","e","a","d"," ","m","o","r","e">>,
     <<"c","o","n","t","i","n","u","e"," ","r","e","a","d","i","n","g">>,
     <<"c","l","i","c","k"," ","h","e","r","e">>,
     <<"s","u","b","s","c","r","i","b","e">>,
     <<"s","i","g","n"," ","u","p">>,
     <<"s","h","a","r","e">>,
     <<"t","w","e","e","t">>,
     <<"f","a","c","e","b","o","o","k">>,
     <<"l","i","n","k","e","d","i","n">>,
     <<"e","m","a","i","l">>,
     <<"a","d","v","e","r","t","i","s","e","m","e","n","t">>,
     <<"s","p","o","n","s","o","r","e","d">>,
     <<"p","r","o","m","o","t","e","d">>,
     <<"r","e","l","a","t","e","d"," ","a","r","t","i","c","l","e","s">>,
     <<"y","o","u"," ","m","a","y"," ","a","l","s","o"," ","l","i","k","e">>,
     <<"r","e","c","o","m","m","e","n","d","e","d">>,
     <<"t","a","g",":">>,
     <<"t","a","g","s",":">>,
     <<"c","a","t","e","g","o","r","i","e",":">>,
     <<"c","a","t","e","g","o","r","i","e","s",":">>,
     <<"f","i","l","e","d"," ","u","n","d","e","r">>,
     <<"p","h","o","t","o",":">>,
     <<"i","m","a","g","e",":">>,
     <<"v","i","d","e","o",":">>,
     <<"s","o","u","r","c","e">>,
     <<"v","i","a">>,
     <<"o","r","i","g","i","n","a","l","l","y"," ","p","u","b","l","i","s","h","e","d">> >>

Digits == {"0", "1", "2", "3", "4", "5", "6", "7", "8", "9"}

\* r"^\d+\s*(comments?|replies)"
CountedNoise(t) ==
  \E d \in 1..Len(t) : \E w \in d..Len(t) :
    /\ \A i \in 1..d : t[i] \in Digits
    /\ \A i \in (d + 1)..w : t[i] \in Whitespace
    /\ \/ OccursAt(t, <<"c","o","m","m","e","n","t">>, w + 1)
       \/ OccursAt(t, <<"r","e","p","l","i","e","s">>, w + 1)

\* The second test of the source (len(text) < 20 and a copyright word) adds
\* nothing for a caller that has already skipped the texts shorter than 20.
_is_likely_noise(text) ==
  ByValue(Lower(text), LAMBDA t :
     \/ \E k \in 1..Len(noise_prefixes) : StartsWith(t, noise_prefixes[k])
     \/ CountedNoise(t)
     \/ /\ Len(t) < 20
        /\ \E w \in {<<"c","o","p","y","r","i","g","h","t">>,
                     <<"r","i","g","h","t","s"," ","r","e","s","e","r","v","e","d">>,
                     <<"u","p","d","a","t","e","d">>,
                     <<"p","u","b","l","i","s","h","e","d">>} : Contains(t, w))

\* self._extract_paragraphs(paragraphs), on the node indices of the paragraphs
_extract_paragraphs(soup, paragraphs) ==
  ByValue(paragraphs, LAMBDA ps :
    ByValue({<<k, Strip(soup.body[ps[k]].text)>> : k \in 1..Len(ps)}, LAMBDA texts :
      JoinParts(SelectSeq([k \in 1..Len(ps) |-> (CHOOSE pr \in texts : pr[1] = k)[2]],
                          LAMBDA t : Len(t) >= 20 /\ ~_is_likely_noise(t)))))

\* the four well-formed selectors of semantic_selectors; the fifth, '[role="main]',
\* has no closing quote and makes select_one raise SelectorSyntaxError
SemanticMatch(soup, k) ==
  LET b == soup.body
  IN CASE k = 1 -> Select(soup, LAMBDA i : b[i].tag = "article")
       [] k = 2 -> Select(soup, LAMBDA i : b[i].tag = "article" /\
                     \E j \in 1..Len(b) : b[j].tag = "main" /\ IsUnder(b, i, j))
       [] k = 3 -> Select(soup, LAMBDA i : b[i].tag = "article" /\
                     \E j \in 1..Len(b) : b[j].role = "main" /\ IsUnder(b, i, j))
       [] k = 4 -> Select(soup, LAMBDA i : b[i].tag = "main")

RECURSIVE SemanticFrom(_, _)
SemanticFrom(soup, k) ==
  IF k = 5 THEN Raised
  ELSE ByValue(SemanticMatch(soup, k), LAMBDA found :
         ByValue(IF found = <<>> THEN <<>> ELSE ParagraphsUnder(soup, found[1]),
                 LAMBDA paragraphs :
           ByValue(_extract_paragraphs(soup, paragraphs), LAMBDA content :
             IF found # <<>> /\ Len(paragraphs) >= 3 /\ Len(content) > 200
             THEN Returned(Some(content))
             ELSE SemanticFrom(soup, k + 1))))

_extract_by_semantic_tags(soup) == SemanticFrom(soup, 1)

\* common_selectors: each entry selects the <p> under an element of one of these
\* classes, ids or data attributes; the last is "div p"
common_selectors ==
  << [by |-> "class", names |-> { <<"a","r","t","i","c","l","e","-","c","o","n","t","e","n","t">>,
                                  <<"a","r","t","i","c","l","e","-","b","o","d","y">>,
                                  <<"p","o","s","t","-","c","o","n","t","e","n","t">> }],
     [by |-> "class", names |-> { <<"e","n","t","r","y","-","x","o","n","t","e","n","t">>,
                                  <<"c","o","n","t","e","n","t">>,
                                  <<"s","t","o","r","y","-","c","o","n","t","e","n","t">> }],
     [by |-> "class", names |-> { <<"a","r","t","i","c","l","e">>, <<"p","o","s","t">>,
                                  <<"s","t","o","r","y">> }],
     [by |-> "class", names |-> { <<"c","o","n","t","e","n","t","-","b","o","d","y">>,
                                  <<"m","a","i","n","-","c","o","n","t","e","n","t">>,
                                  <<"p","a","g","e","-","c","o","n","t","e","n","t">> }],
     [by |-> "class", names |-> { <<"t","e","x","t","-","c","o","n","t","e","n","t">>,
                                  <<"e","d","i","t","o","r","i","a","l","-","c","o","n","t","e","n","t">> }],
     [by |-> "id", names |-> {"article-content", "post-content", "story-content"}],
     [by |-> "id", names |-> {"content", "main-content"}],
     [by |-> "data-component", names |-> {"text-block"}],
     [by |-> "data-module", names |-> {"ArticleBody"}],
     [by |-> "tag", names |-> {"div"}] >>

\* whether node j is an element the selector's left side names
Names(sel, node) ==
  CASE sel.by = "class" -> node.cls \in sel.names
    [] sel.by = "id" -> node.id \in sel.names
    [] sel.by = "data-component" -> node.component \in sel.names
    [] sel.by = "data-module" -> node.module \in sel.names
    [] sel.by = "tag" -> node.tag \in sel.names

RECURSIVE CommonFrom(_, _)
CommonFrom(soup, k) ==
  IF k > Len(common_selectors) THEN None
  ELSE ByValue(Select(soup, LAMBDA i : soup.body[i].tag = "p" /\
                 \E j \in 1..Len(soup.body) :
                    Names(common_selectors[k], soup.body[j]) /\ IsUnder(soup.body, i, j)),
               LAMBDA elements :
         ByValue(_extract_paragraphs(soup, elements), LAMBDA content :
           IF Len(elements) >= 3 /\ Len(content) > 200
           THEN Some(content)
           ELSE CommonFrom(soup, k + 1)))

_extract_by_common_selectors(soup) == Returned(CommonFrom(soup, 1))

\* the paragraphs the density loop counts for a container
DensityParagraphs(soup, c) ==
  IF ParagraphsChildOf(soup, c) # <<>> THEN ParagraphsChildOf(soup, c)
  ELSE ParagraphsUnder(soup, c)

Score(soup, c) ==
  ByValue(DensityParagraphs(soup, c), LAMBDA paragraphs :
    Len(paragraphs) * SumLen([k \in 1..Len(paragraphs) |-> soup.body[paragraphs[k]].text]))

RECURSIVE BestFromKeepingLast(_, _, _, _, _)
BestFromKeepingLast(soup, containers, k, best_container, max_score) ==
  IF k > Len(containers) THEN best_container
  ELSE ByValue(Score(soup, containers[k]), LAMBDA score :
         IF score >= max_score /\ Len(DensityParagraphs(soup, containers[k])) >= 2
         THEN BestFromKeepingLast(soup, containers, k + 1, containers[k], score)
         ELSE BestFromKeepingLast(soup, containers, k + 1, best_container, max_score))

RECURSIVE BestFrom(_, _, _, _, _)
\* the loop over containers: best_container and max_score after the k-th on
BestFrom(soup, containers, k, best_container, max_score) ==
  IF k > Len(containers) THEN best_container
  ELSE ByValue(Score(soup, containers[k]), LAMBDA score :
         IF score > max_score /\ Len(DensityParagraphs(soup, containers[k])) >= 2
         THEN BestFrom(soup, containers, k + 1, containers[k], score)
         ELSE BestFrom(soup, containers, k + 1, best_container, max_score))

_extract_by_paragraph_density(soup) ==
  ByValue(Select(soup, LAMBDA i : soup.body[i].tag \in {"div", "section", "article"}),
          LAMBDA containers :
    ByValue(BestFrom(soup, containers, 1, 0, 0), LAMBDA best_container :
      ByValue(IF best_container = 0 THEN <<>>
              ELSE _extract_paragraphs(soup, ParagraphsUnder(soup, best_container)),
              LAMBDA content :
        Returned(IF best_container # 0 /\ Len(content) > 200 THEN Some(content) ELSE None))))


-----------------------------------------------------------------------------
(* Normalisation and the strategy chain *)

\* re.sub(r"\s+", " ", content): of a run of whitespace only the first character
\* stays, as a space
CollapseWhitespace(text) ==
  ByValue(text, LAMBDA s :
    ByValue(SelectSeq([i \in 1..Len(s) |-> i],
                      LAMBDA i : ~(s[i] \in Whitespace /\ i > 1 /\ s[i - 1] \in Whitespace)),
            LAMBDA kept :
              [k \in 1..Len(kept) |-> IF s[kept[k]] \in Whitespace THEN " " ELSE s[kept[k]]]))

RECURSIVE BreaksFrom(_, _)
\* re.sub(r"\n\s*\n", "\n\n", content), from position i on
BreaksFrom(s, i) ==
  IF i > Len(s) THEN <<>>
  ELSE LET ends == {j \in (i + 1)..Len(s) :
                      s[j] = "\n" /\ \A k \in i..j : s[k] \in Whitespace}
       IN IF s[i] = "\n" /\ ends # {}
          THEN LET j == CHOOSE e \in ends : \A f \in ends : f <= e
               IN <<"\n", "\n">> \o BreaksFrom(s, j + 1)
          ELSE <<s[i]>> \o BreaksFrom(s, i + 1)

\* a text without a line break has no match
FixParagraphBreaks(text) ==
  ByValue(text, LAMBDA s :
    IF \A i \in 1..Len(s) : s[i] # "\n" THEN s ELSE BreaksFrom(s, 1))

noise_endings ==
  << << <<"r","e","a","d"," ","m","o","r","e">>,
        <<"c","o","n","t","i","n","u","e"," ","r","e","a","d","i","n","g">>,
        <<"c","l","i","c","k"," ","h","e","r","e">> >>,
     << <<"s","h","a","r","e"," ","t","h","i","s"," ","a","r","t","i","c","l","e">>,
        <<"s","h","a","r","e"," ","o","n">> >>,
     << <<"t","a","g",":">>,
        <<"t","a","g","s",":">>,
        <<"c","a","t","e","g","o","r","i","e",":">>,
        <<"c","a","t","e","g","o","r","i","e","s",":">> >> >>

\* re.sub(r"\s*(a|b|c).*$", "", content, flags=re.IGNORECASE): the leftmost match
\* starts at the whitespace before the first occurrence of a phrase and, the text
\* holding no line break by now, runs to the end
CutEnding(text, phrases) ==
  ByValue(text, LAMBDA s :
    ByValue(Lower(s), LAMBDA t :
      ByValue({i \in 1..Len(s) : \E k \in 1..Len(phrases) : OccursAt(t, phrases[k], i)},
              LAMBDA at :
                IF at = {} \/ \E i \in 1..Len(s) : s[i] = "\n" THEN s
                ELSE LET q == CHOOSE i \in at : \A j \in at : i <= j
                         start == CHOOSE i \in 1..q :
                                    /\ \A k \in i..(q - 1) : s[k] \in Whitespace
                                    /\ i = 1 \/ s[i - 1] \notin Whitespace
                     IN SubSeq(s, 1, start - 1))))

\* self._clean_content(content)
_clean_content(content) ==
  ByValue(CollapseWhitespace(content), LAMBDA c1 :
    ByValue(FixParagraphBreaks(c1), LAMBDA c2 :
      ByValue(CutEnding(c2, noise_endings[1]), LAMBDA c3 :
        ByValue(CutEnding(c3, noise_endings[2]), LAMBDA c4 :
          ByValue(CutEnding(c4, noise_endings[3]), LAMBDA c5 : Strip(c5))))))

\* the operands of the or-chain, in the order the source writes them
Strategy(k, soup) ==
  CASE k = 1 -> _extract_by_json_ld(soup)
    [] k = 2 -> _extract_by_meta_tags(soup)
    [] k = 3 -> _extract_by_semantic_tags(soup)
    [] k = 4 -> _extract_by_common_selectors(soup)
    [] k = 5 -> _extract_by_paragraph_density(soup)

RECURSIVE OrChain(_, _)
\* a or b or ...: the first operand that is true; the last one otherwise; an
\* operand that raises ends the evaluation.  [by] is the operand that decided.
OrChain(soup, k) ==
  ByValue(Strategy(k, soup), LAMBDA r :
    IF r.raised THEN [raised |-> TRUE, out |-> None, by |-> k]
    ELSE IF Truthy(r.out) \/ k = 5 THEN [raised |-> FALSE, out |-> r.out, by |-> k]
    ELSE OrChain(soup, k + 1))

ExtractionKeepingShort(fetch) ==
  IF fetch.status # "ok" THEN [candidate |-> None, by |-> 0, returns |-> None]
  ELSE ByValue(CleanSoup(Soup(fetch.page)), LAMBDA soup :
         ByValue(OrChain(soup, 1), LAMBDA content :
           IF content.raised THEN [candidate |-> None, by |-> content.by, returns |-> None]
           ELSE IF Truthy(content.out)
                THEN [candidate |-> content.out, by |-> content.by,
                      returns |-> Some(_clean_content(content.out.val))]
                ELSE [candidate |-> None, by |-> content.by, returns |-> None]))

\* UniversalArticleScraper.scrape_article_content(url), given what client.get(url)
\* did: the candidate before cleaning, the strategy that gave it, and the value
\* returned.  Every exception ends in "return None".
Extraction(fetch) ==
  IF fetch.status # "ok" THEN [candidate |-> None, by |-> 0, returns |-> None]
  ELSE ByValue(CleanSoup(Soup(fetch.page)), LAMBDA soup :
         ByValue(OrChain(soup, 1), LAMBDA content :
           IF content.raised THEN [candidate |-> None, by |-> content.by, returns |-> None]
           ELSE IF Truthy(content.out)
                THEN ByValue(_clean_content(content.out.val), LAMBDA cleaned :
                       [candidate |-> content.out, by |-> content.by,
                        returns |-> IF Len(cleaned) > 100 THEN Some(cleaned) ELSE None])
                ELSE [candidate |-> None, by |-> content.by, returns |-> None]))

scrape_article_content(fetch) == Extraction(fetch).returns

-----------------------------------------------------------------------------
(* The pages the model fetches *)

NoData == [articleBody |-> None, text |-> None, description |-> None, content |-> None]

LdScript(kind, object, items) ==
  [tag |-> "script", type |-> "application/ld+json", json |-> kind,
   object |-> object, items |-> items]

LongBody == Rep("j", 250)

ScriptChoices ==
  { <<>>,
    \* one block with an articleBody of 250 characters
    << LdScript("object", [NoData EXCEPT !.articleBody = Some(LongBody)], <<>>) >>,
    \* a malformed block, then an array whose first element has a text of 230
    << LdScript("malformed", NoData, <<>>),
       LdScript("array", NoData, << [NoData EXCEPT !.text = Some(Rep("t", 230))] >>) >>,
    \* articleBody of exactly 200 (not accepted), description of 260
    << LdScript("object", [NoData EXCEPT !.articleBody = Some(Rep("j", 200)),
                                         !.description = Some(Rep("d", 260))], <<>>) >>,
    \* an empty array, then a block that would qualify
    << LdScript("array", NoData, <<>>),
       LdScript("object", [NoData EXCEPT !.articleBody = Some(LongBody)], <<>>) >> }

Meta(attr, content) == [tag |-> "meta", attr |-> attr, content |-> content]

MetaChoices ==
  { <<>>,
    << Meta("name=description", Rep("m", 201)) >>,
    << Meta("name=description", Rep("m", 150)),
       Meta("property=og:description", Rep("o", 240)) >> }

Node(tag, cls, parent, text) ==
  [tag |-> tag, cls |-> cls, id |-> "", role |-> "", component |-> "", module |-> "",
   parent |-> parent, text |-> text]

P(parent, text) == Node("p", <<>>, parent, text)

BodyChoices ==
  { <<>>,
    \* <article> with three paragraphs of 70
    << Node("article", <<>>, 0, <<>>),
       P(1, Rep("a", 70)), P(1, Rep("b", 70)), P(1, Rep("c", 70)) >>,
    \* <div class="article-body"> with three paragraphs of 80, no semantic container
    << Node("div", <<"a","r","t","i","c","l","e","-","b","o","d","y">>, 0, <<>>),
       P(1, Rep("a", 80)), P(1, Rep("b", 80)), P(1, Rep("c", 80)) >>,
    \* <article> whose first paragraph is a "Read more" line
    << Node("article", <<>>, 0, <<>>),
       P(1, <<"R","e","a","d"," ","m","o","r","e">> \o Rep("x", 30)),
       P(1, Rep("a", 110)), P(1, Rep("b", 110)) >>,
    \* <article> inside <div class="sidebar"> (removed), then <main> with four paragraphs
    << Node("div", <<"s","i","d","e","b","a","r">>, 0, <<>>),
       Node("article", <<>>, 1, <<>>),
       P(2, Rep("s", 90)), P(2, Rep("s", 90)), P(2, Rep("s", 90)),
       Node("main", <<>>, 0, <<>>),
       P(6, Rep("a", 70)), P(6, Rep("b", 70)), P(6, Rep("c", 70)), P(6, <<"s","h","o","r","t">>) >>,
    \* <article> whose first paragraph runs into "read more": the cleaning cuts there
    << Node("article", <<>>, 0, <<>>),
       P(1, Rep("a", 80) \o <<" ","r","e","a","d"," ","m","o","r","e"," ">> \o Rep("z", 10)),
       P(1, Rep("b", 70)), P(1, Rep("c", 70)) >> }

Pages == [scripts : ScriptChoices, metas : MetaChoices, body : BodyChoices]

EmptyPage == [scripts |-> <<>>, metas |-> <<>>, body |-> <<>>]

\* client.get(url) and response.raise_for_status(): a page, or an exception
\* (transport error, timeout, status of 400 or more)
FetchOutcomes ==
  {[status |-> "ok", page |-> p] : p \in Pages}
    \cup {[status |-> st, page |-> EmptyPage] : st \in {"timeout", "http_error"}}

\* the extractor's answer to every fetch of the model, computed once
Extracted == {<<f, Extraction(f)>> : f \in FetchOutcomes}

ExtractionOf(fetch) == (CHOOSE pr \in Extracted : pr[1] = fetch)[2]

\* scrape_full_article_content(url): the module-level wrapper
scrape_full_article_content(fetch) == ExtractionOf(fetch).returns

\* the pages the batch and the detail lookup meet: a timeout, an error status, a page whose only
\* content is a JSON-LD block, one with a meta description of 201 characters and
\* one with an <article> of three paragraphs (212 characters once cleaned)
Web ==
  {f \in FetchOutcomes :
     \/ f.status # "ok"
     \/ /\ f.status = "ok"
        /\ \/ Len(f.page.scripts) = 1 /\ f.page.scripts[1].object.articleBody = Some(LongBody)
              /\ f.page.metas = <<>> /\ f.page.body = <<>>
           \/ f.page.scripts = <<>> /\ Len(f.page.metas) = 1 /\ f.page.body = <<>>
           \/ f.page.scripts = <<>> /\ f.page.metas = <<>> /\ Len(f.page.body) = 4
              /\ f.page.body[2].text = Rep("a", 70)}

-----------------------------------------------------------------------------
(* Python values and dicts.  A dict is a function from the keys it holds. *)

PyNone == [t |-> "none", v |-> <<>>]
PyStr(chars) == [t |-> "str", v |-> chars]
\* a value json.dumps cannot serialise (a datetime, a set, ...)
PyObj == [t |-> "obj", v |-> <<>>]

\* d.get(key) / d.get(key, default)
Get(d, key, default) == IF key \in DOMAIN d THEN d[key] ELSE default

\* d[key] = value
Put(d, key, value) == [k \in DOMAIN d \cup {key} |-> IF k = key THEN value ELSE d[k]]

\* Python truth of a dict value
IsTrue(x) == x.t = "obj" \/ (x.t = "str" /\ x.v # <<>>)

Api == PyStr(<<"a","p","i">>)
ScrapedMark == PyStr(<<"s","c","r","a","p","e","d">>)
EmptyStr == PyStr(<<>>)

-----------------------------------------------------------------------------
(* enhance_articles_with_full_content *)

\* lines 318-320 of scrape_single_article: no url
WithoutUrl(article) == [raised |-> FALSE, article |-> Put(article, "content_source", Api)]

ExceptClauseReraising(article) == [raised |-> TRUE, article |-> article]

\* the except clause of scrape_single_article (it logs, sets the marker, and the
\* function goes on to "return article")
ExceptClause(article) == [raised |-> FALSE, article |-> Put(article, "content_source", Api)]

AfterScrapeAcceptingTies(article, fc) ==
  LET content == Get(article, "content", EmptyStr)
  IN IF Truthy(fc) /\ content.t # "str" THEN ExceptClause(article)
     ELSE IF Truthy(fc) /\ Len(fc.val) >= Len(content.v)
          THEN [raised |-> FALSE,
                article |-> Put(Put(article, "content", PyStr(fc.val)),
                                "content_source", ScrapedMark)]
          ELSE [raised |-> FALSE, article |-> Put(article, "content_source", Api)]

\* lines 325-340 of scrape_single_article, given what the extractor returned.
\* len() of a content that is None raises TypeError inside the try.
AfterScrape(article, fc) ==
  LET content == Get(article, "content", EmptyStr)
  IN IF Truthy(fc) /\ content.t # "str" THEN ExceptClause(article)
     ELSE IF Truthy(fc) /\ Len(fc.val) > Len(content.v)
          THEN [raised |-> FALSE,
                article |-> Put(Put(article, "content", PyStr(fc.val)),
                                "content_source", ScrapedMark)]
          ELSE [raised |-> FALSE, article |-> Put(article, "content_source", Api)]

CanAcquireAlways(value) == TRUE

\* asyncio.Semaphore: acquire() goes through while the value is positive
CanAcquire(value) == value > 0

N == Len(articles)

\* how many of the tasks have finished
Arrived == Cardinality({j \in 1..N : gathered[j].done})

\* scrape_with_semaphore(article) starts: it takes a slot and runs
\* scrape_single_article up to its first await.  Without a url there is none: the
\* article is marked and returned, and the slot is released, in the same step.
TaskStart(i) ==
  /\ task[i] = "created"
  /\ CanAcquire(semaphore)
  /\ IF ~IsTrue(Get(articles[i], "url", EmptyStr))
     THEN /\ articles' = [articles EXCEPT ![i] = WithoutUrl(articles[i]).article]
          /\ task' = [task EXCEPT ![i] = "done"]
          /\ gathered' = [gathered EXCEPT ![i] = [done |-> TRUE, exc |-> WithoutUrl(articles[i]).raised,
                                                    seq |-> Arrived + 1]]
          /\ UNCHANGED semaphore
     ELSE /\ semaphore' = semaphore - 1
          /\ task' = [task EXCEPT ![i] = "scraping"]
          /\ UNCHANGED <<articles, gathered>>
  /\ UNCHANGED <<original, max_concurrent, full_content, result, extractVars, cacheVars>>

\* await scrape_full_article_content(url) returns; the rest of
\* scrape_single_article runs, and "async with" releases the slot
TaskFinish(i, fetch) ==
  /\ task[i] = "scraping"
  /\ \E fc \in {scrape_full_article_content(fetch)} :
       \E r \in {AfterScrape(articles[i], fc)} :
         /\ full_content' = [full_content EXCEPT ![i] = [called |-> TRUE, out |-> fc]]
         /\ articles' = [articles EXCEPT ![i] = r.article]
         /\ gathered' = [gathered EXCEPT ![i] = [done |-> TRUE, exc |-> r.raised,
                                                  seq |-> Arrived + 1]]
  /\ semaphore' = semaphore + 1
  /\ task' = [task EXCEPT ![i] = "done"]
  /\ UNCHANGED <<original, max_concurrent, result, extractVars, cacheVars>>

\* the outcomes that are no exception, in the order the tasks finished
FilteredAsCompleted(outcomes) ==
  LET kept == {i \in 1..Len(outcomes) : ~outcomes[i].exc}
      Position(i) == Cardinality({j \in kept : outcomes[j].seq <= outcomes[i].seq})
  IN [k \in 1..Cardinality(kept) |-> CHOOSE i \in kept : Position(i) = k]

\* lines 355-363: gather has every outcome, in the order of its arguments; the
\* exceptions are filtered out
Filtered(outcomes) ==
  SelectSeq([i \in 1..Len(outcomes) |-> i], LAMBDA i : ~outcomes[i].exc)

GatherReturns ==
  /\ ~result.returned
  /\ \A i \in 1..N : gathered[i].done
  /\ result' = [returned |-> TRUE, list |-> Filtered(gathered)]
  /\ UNCHANGED <<articles, original, max_concurrent, semaphore, task, full_content,
                 gathered, extractVars, cacheVars>>

NumArticles == 3
MaxConcurrent == 2

Url == <<"h","t","t","p",":","/","/","x">>
Short == Rep("s", 50)
Medium == Rep("w", 212)

\* the articles a batch is made of: without url, with a content that is None,
\* with 50 characters and with 212 (the length of one of the pages' texts)
ArticleInputs ==
  { [k \in {"url", "content"} |-> IF k = "url" THEN EmptyStr ELSE PyStr(Short)],
    [k \in {"url", "content"} |-> IF k = "url" THEN PyStr(Url) ELSE PyNone],
    [k \in {"url", "content"} |-> IF k = "url" THEN PyStr(Url) ELSE PyStr(Short)],
    [k \in {"url", "content"} |-> IF k = "url" THEN PyStr(Url) ELSE PyStr(Medium)] }

NotCalled == [called |-> FALSE, out |-> None]

BatchIdle ==
  /\ articles = <<>>
  /\ original = <<>>
  /\ max_concurrent = 0
  /\ semaphore = 0
  /\ task = <<>>
  /\ full_content = <<>>
  /\ gathered = <<>>
  /\ result = [returned |-> FALSE, list |-> <<>>]

ExtractIdle ==
  /\ fetched = [status |-> "timeout", page |-> EmptyPage]
  /\ scraped = [done |-> FALSE, candidate |-> None, by |-> 0, returns |-> None]

CacheIdle ==
  /\ store = <<>>
  /\ now = 0
  /\ ticks = 0
  /\ issued = {}
  /\ last = [op |-> "none"]

BatchInit ==
  /\ articles \in [1..NumArticles -> ArticleInputs]
  /\ original = articles
  /\ max_concurrent \in 1..MaxConcurrent
  /\ semaphore = max_concurrent
  /\ task = [i \in 1..NumArticles |-> "created"]
  /\ full_content = [i \in 1..NumArticles |-> NotCalled]
  /\ gathered = [i \in 1..NumArticles |-> [done |-> FALSE, exc |-> FALSE, seq |-> 0]]
  /\ result = [returned |-> FALSE, list |-> <<>>]
  /\ ExtractIdle
  /\ CacheIdle

BatchNext ==
  \/ \E i \in 1..N : TaskStart(i)
  \/ \E i \in 1..N : \E fetch \in Web : TaskFinish(i, fetch)
  \/ GatherReturns

BatchSpec == BatchInit /\ [][BatchNext]_vars

\* the event loop runs every task that can run, and every fetch ends (in a page,
\* an error or the 30 s timeout)
BatchFairSpec == BatchSpec /\ WF_vars(BatchNext)

-----------------------------------------------------------------------------
(* The extractor on its own: one fetched page, one call *)

ExtractInit ==
  /\ fetched \in FetchOutcomes
  /\ scraped = [done |-> FALSE, candidate |-> None, by |-> 0, returns |-> None]
  /\ BatchIdle
  /\ CacheIdle

ScrapeArticleContent ==
  /\ ~scraped.done
  /\ \E e \in {ExtractionOf(fetched)} :
       scraped' = [done |-> TRUE, candidate |-> e.candidate, by |-> e.by,
                   returns |-> e.returns]
  /\ UNCHANGED <<fetched, batchVars, cacheVars>>

ExtractNext == ScrapeArticleContent

ExtractSpec == ExtractInit /\ [][ExtractNext]_vars

-----------------------------------------------------------------------------
(* The paragraph-density strategy on its own: one parsed page, one call *)

MaxParagraphs == 3

ContainerTags == {"div", "section", "article", "main"}

\* the paragraph lengths, around the length gate: two paragraphs of 99 give a
\* text of 200, two of 100 a text of 202
ParagraphLengths == {99, 100}

\* a container element with n paragraphs of the given length as its children;
\* at is its place in the document, mark the letter its paragraphs are made of
ContainerWith(tag, parent, at, n, len, mark) ==
  << Node(tag, <<>>, parent, <<>>) >> \o [k \in 1..n |-> P(at, Rep(mark, len))]

ContainerShapes == [tag : ContainerTags, n : 0..MaxParagraphs, len : ParagraphLengths]

\* one container, or two of them, the second beside the first or inside it
DensityBodies ==
  { ContainerWith(c.tag, 0, 1, c.n, c.len, "a") : c \in ContainerShapes }
    \cup { ContainerWith(c.tag, 0, 1, c.n, c.len, "a")
             \o ContainerWith(d.tag, parent, c.n + 2, d.n, d.len, "b") :
           c \in ContainerShapes, d \in ContainerShapes, parent \in {0, 1} }

DensityInit ==
  /\ fetched \in {[status |-> "ok", page |-> [EmptyPage EXCEPT !.body = b]] : b \in DensityBodies}
  /\ scraped = [done |-> FALSE, candidate |-> None, by |-> 0, returns |-> None]
  /\ BatchIdle
  /\ CacheIdle

\* self._extract_by_paragraph_density(soup) on the parsed and cleaned page
ExtractByParagraphDensity ==
  /\ ~scraped.done
  /\ \E r \in {_extract_by_paragraph_density(CleanSoup(Soup(fetched.page)))} :
       scraped' = [done |-> TRUE, candidate |-> r.out, by |-> 5, returns |-> None]
  /\ UNCHANGED <<fetched, batchVars, cacheVars>>

DensityNext == ExtractByParagraphDensity

DensitySpec == DensityInit /\ [][DensityNext]_vars

-----------------------------------------------------------------------------
(* The article cache (app/services/redis.py) *)

REDIS_ARTICLES_TTL == 3600

MaxIds == 2
MaxFeed == 2
MaxTicks == 2

DigitChars == <<"1", "2", "3", "4", "5", "6", "7", "8", "9">>
\* the n-th id uuid.uuid4() can give
IdOf(n) == <<"i", "d", DigitChars[n]>>
Ids == {IdOf(n) : n \in 1..MaxIds}

\* f"article:{article_id}"
Key(article_id) == <<"a","r","t","i","c","l","e",":">> \o article_id

NoArticle == [k \in {} |-> PyNone]

\* json.dumps(article_data): an object with one member per key; None becomes
\* null, a str a string; any other value raises TypeError
Dumps(d) ==
  IF \E k \in DOMAIN d : d[k].t = "obj" THEN [raised |-> TRUE, text |-> [wellformed |-> FALSE, object |-> NoArticle]]
  ELSE [raised |-> FALSE,
        text |-> [wellformed |-> TRUE,
                  object |-> [k \in DOMAIN d |->
                                IF d[k].t = "none" THEN [j |-> "null", chars |-> <<>>]
                                ELSE [j |-> "string", chars |-> d[k].v]]]]

\* json.loads(cached_data): JSONDecodeError on a text that is not JSON
Loads(text) ==
  IF ~text.wellformed THEN [raised |-> TRUE, value |-> NoArticle]
  ELSE [raised |-> FALSE,
        value |-> [k \in DOMAIN text.object |->
                     IF text.object[k].j = "null" THEN PyNone
                     ELSE PyStr(text.object[k].chars)]]

NoEntry == [live |-> FALSE, text |-> [wellformed |-> FALSE, object |-> NoArticle],
            expires |-> 0, by |-> "nobody", value |-> NoArticle, at |-> 0]

\* redis SETEX key seconds value at time t; [by], [value] and [at] remember who
\* wrote, what was handed to json.dumps, and when
SetEx(entries, key, seconds, text, t, by, value) ==
  [k \in DOMAIN entries |->
     IF k = key
     THEN [live |-> TRUE, text |-> text, expires |-> t + seconds, by |-> by,
           value |-> value, at |-> t]
     ELSE entries[k]]

\* redis GET key at time t: the value while the key has not expired
RedisGet(entries, key, t) ==
  IF entries[key].live /\ t < entries[key].expires
  THEN [nil |-> FALSE, text |-> entries[key].text]
  ELSE [nil |-> TRUE, text |-> NoEntry.text]

DumpsNoneAsString(d) ==
  [raised |-> \E k \in DOMAIN d : d[k].t = "obj",
   text |-> [wellformed |-> TRUE,
             object |-> [k \in DOMAIN d |->
                           IF d[k].t = "none"
                           THEN [j |-> "string", chars |-> <<"n","u","l","l">>]
                           ELSE [j |-> "string", chars |-> d[k].v]]]]

\* the serialisation both cache writers use
Serialise(d) == Dumps(d)

\* cache_article(article_id, article_data): get_redis() or setex raise when the
\* backend cannot be reached, json.dumps when the data cannot be serialised; the
\* handler prints and re-raises
cache_article(entries, up, t, article_id, article_data) ==
  IF ~up \/ Serialise(article_data).raised THEN [raised |-> TRUE, entries |-> entries]
  ELSE [raised |-> FALSE,
        entries |-> SetEx(entries, Key(article_id), REDIS_ARTICLES_TTL,
                          Serialise(article_data).text, t, "put", article_data)]

GetCachedArticleRaisingOnCorrupt(entries, up, t, article_id) ==
  IF ~up THEN [raised |-> FALSE, found |-> FALSE, article |-> NoArticle]
  ELSE LET cached_data == RedisGet(entries, Key(article_id), t)
       IN IF cached_data.nil THEN [raised |-> FALSE, found |-> FALSE, article |-> NoArticle]
          ELSE IF Loads(cached_data.text).raised
               THEN [raised |-> TRUE, found |-> FALSE, article |-> NoArticle]
               ELSE [raised |-> FALSE, found |-> TRUE, article |-> Loads(cached_data.text).value]

\* get_cached_article(article_id): None when the key is absent, when
\* json.loads raises JSONDecodeError and when anything else raises
get_cached_article(entries, up, t, article_id) ==
  IF ~up THEN [raised |-> FALSE, found |-> FALSE, article |-> NoArticle]
  ELSE LET cached_data == RedisGet(entries, Key(article_id), t)
       IN IF cached_data.nil THEN [raised |-> FALSE, found |-> FALSE, article |-> NoArticle]
          ELSE IF Loads(cached_data.text).raised
               THEN [raised |-> FALSE, found |-> FALSE, article |-> NoArticle]
               ELSE [raised |-> FALSE, found |-> TRUE, article |-> Loads(cached_data.text).value]

RECURSIVE PipeSetEx(_, _, _, _)
\* the loop of cache_articles_batch: one setex per article, queued on the pipeline
PipeSetEx(entries, ids, articles_to_cache, t) ==
  IF ids = <<>> THEN entries
  ELSE PipeSetEx(SetEx(entries, Key(ids[1]), REDIS_ARTICLES_TTL,
                       Serialise(articles_to_cache[1]).text, t, "feed", articles_to_cache[1]),
                 Tail(ids), Tail(articles_to_cache), t)

CacheArticlesBatchSwallowing(entries, up, t, ids, articles_to_cache) ==
  IF ids = <<>> \/ ~up \/ \E k \in 1..Len(ids) : Serialise(articles_to_cache[k]).raised
  THEN [raised |-> FALSE, entries |-> entries]
  ELSE [raised |-> FALSE, entries |-> PipeSetEx(entries, ids, articles_to_cache, t)]

\* cache_articles_batch(articles): nothing to do for an empty dict; otherwise the
\* pipeline is executed in one round trip, and whatever raises is re-raised.
\* The dict is given as its keys and values in insertion order.
cache_articles_batch(entries, up, t, ids, articles_to_cache) ==
  IF ids = <<>> THEN [raised |-> FALSE, entries |-> entries]
  ELSE IF ~up \/ \E k \in 1..Len(ids) : Serialise(articles_to_cache[k]).raised
       THEN [raised |-> TRUE, entries |-> entries]
       ELSE [raised |-> FALSE, entries |-> PipeSetEx(entries, ids, articles_to_cache, t)]

-----------------------------------------------------------------------------
(* fetch_news and GET /news *)

\* what the upstream returns in "articles": article objects, and the odd item
\* that is no object
IsDict(item) == item.dict

Item(article) == [dict |-> TRUE, article |-> article]
NotADict == [dict |-> FALSE, article |-> NoArticle]

Title == <<"T">>

UpstreamItems ==
  { Item([k \in {"title", "url", "content"} |->
            CASE k = "title" -> PyStr(Title) [] k = "url" -> PyStr(Url) [] OTHER -> PyStr(Short)]),
    Item([k \in {"title", "url", "content"} |->
            CASE k = "title" -> PyStr(Title) [] k = "url" -> PyStr(Url) [] OTHER -> PyStr(Medium)]),
    NotADict }

Feeds == UNION {[1..n -> UpstreamItems] : n \in 0..MaxFeed}

RECURSIVE FreshIds(_, _)
\* n ids uuid.uuid4() has not produced before (the unused ones, lowest first)
FreshIds(used, n) ==
  IF n = 0 THEN <<>>
  ELSE LET id == IdOf(CHOOSE m \in 1..MaxIds :
                        IdOf(m) \notin used /\ \A l \in 1..(m - 1) : IdOf(l) \in used)
       IN <<id>> \o FreshIds(used \cup {id}, n - 1)

OneIdForAll(used, n) ==
  IF n = 0 THEN <<>> ELSE [k \in 1..n |-> FreshIds(used, 1)[1]]

\* str(uuid.uuid4()), once per article object of the response
NewIds(used, n) == FreshIds(used, n)

\* lines 400-407: the article objects of the response, each with its new id
Dicts(feed) == SelectSeq(feed, IsDict)

WithIds(feed, ids) == [k \in 1..Len(Dicts(feed)) |-> Put(Dicts(feed)[k].article, "id", PyStr(ids[k]))]

\* articles_to_cache[article["id"]] = article.copy(): a later article with the
\* same id takes the place of the earlier one
RECURSIVE DictKeys(_)
DictKeys(ids) ==
  IF ids = <<>> THEN <<>>
  ELSE IF \E k \in 2..Len(ids) : ids[k] = ids[1] THEN DictKeys(Tail(ids))
  ELSE <<ids[1]>> \o DictKeys(Tail(ids))

DictValues(ids, values) ==
  [k \in 1..Len(DictKeys(ids)) |->
     values[CHOOSE m \in 1..Len(ids) : ids[m] = DictKeys(ids)[k] /\
                                        \A m2 \in (m + 1)..Len(ids) : ids[m2] # ids[m]]]


\* GET /news: fetch_news (the upstream request, the ids, the cache write) under
\* the handlers of get_news.  An upstream failure is answered with its status or
\* 503; a failure of the cache write is not caught and ends in a 500.
FetchNews(upstream, feed, redisUp) ==
  /\ Cardinality(issued) + Len(Dicts(feed)) <= MaxIds
  /\ IF upstream # "ok"
     THEN /\ last' = [op |-> "feed", status |-> IF upstream = "request_error" THEN 503 ELSE 403,
                      raised |-> FALSE, cache_raised |-> FALSE, feed |-> <<>>, ids |-> <<>>,
                      before |-> issued, up |-> redisUp, at |-> now]
          /\ UNCHANGED <<store, issued>>
     ELSE \E ids \in {NewIds(issued, Len(Dicts(feed)))} :
          \E r \in {cache_articles_batch(store, redisUp, now, DictKeys(ids),
                                         DictValues(ids, WithIds(feed, ids)))} :
            /\ store' = r.entries
            /\ issued' = issued \cup {ids[k] : k \in 1..Len(ids)}
            /\ last' = [op |-> "feed", status |-> IF r.raised THEN 500 ELSE 200,
                        raised |-> r.raised, cache_raised |-> r.raised, feed |-> feed,
                        ids |-> ids, before |-> issued, up |-> redisUp, at |-> now]
  /\ UNCHANGED <<now, ticks, extractVars, batchVars>>

\* what cache_article is called with: an article, and one holding a value that
\* json.dumps cannot serialise
PutData ==
  { [k \in {"title", "url", "content"} |->
       CASE k = "title" -> PyStr(Title) [] k = "url" -> PyStr(Url) [] OTHER -> PyNone],
    [k \in {"title", "url", "content"} |->
       CASE k = "title" -> PyStr(Title) [] k = "url" -> PyStr(Url) [] OTHER -> PyObj] }

CacheArticle(article_id, article_data, redisUp) ==
  /\ \E r \in {cache_article(store, redisUp, now, article_id, article_data)} :
       /\ store' = r.entries
       /\ last' = [op |-> "put", id |-> article_id, data |-> article_data,
                   raised |-> r.raised, up |-> redisUp, at |-> now]
  /\ UNCHANGED <<now, ticks, issued, extractVars, batchVars>>

GetCachedArticle(article_id, redisUp) ==
  /\ \E r \in {get_cached_article(store, redisUp, now, article_id)} :
       last' = [op |-> "get", id |-> article_id, raised |-> r.raised, found |-> r.found,
                article |-> r.article, entry |-> store[Key(article_id)],
                up |-> redisUp, at |-> now]
  /\ UNCHANGED <<store, now, ticks, issued, extractVars, batchVars>>

\* fetch_news_by_id(article_id): the cached article if it is there and true
\* (a dict with a key), None otherwise, also when the read raises
fetch_news_by_id(entries, up, t, article_id) ==
  LET r == get_cached_article(entries, up, t, article_id)
  IN IF ~r.raised /\ r.found /\ DOMAIN r.article # {}
     THEN [found |-> TRUE, article |-> r.article]
     ELSE [found |-> FALSE, article |-> NoArticle]

EnhancementStoringNothing(article, full, include_metadata, fc) ==
  IF full /\ IsTrue(Get(article, "url", PyNone))
  THEN IF Truthy(fc)
       THEN LET content == Get(article, "content", EmptyStr)
            IN IF content.t # "str"
               THEN [article |-> Put(article, "content_source", Api), enhanced |-> FALSE,
                     keys |-> IF include_metadata THEN {"scraping_error"} ELSE {}]
               ELSE IF Len(fc.val) > Len(content.v)
                    THEN IF include_metadata
                         THEN [article |-> Put(Put(article, "content", PyStr(fc.val)),
                                               "content_source", ScrapedMark),
                               enhanced |-> TRUE, keys |-> {"content_enhancement"}]
                         ELSE [article |-> Put(Put(article, "content", PyStr(fc.val)),
                                               "content_source", Api),
                               enhanced |-> TRUE, keys |-> {}]
                    ELSE [article |-> Put(article, "content_source", Api),
                          enhanced |-> FALSE, keys |-> {}]
       ELSE [article |-> Put(article, "content", PyNone), enhanced |-> FALSE, keys |-> {}]
  ELSE [article |-> Put(article, "content_source", Api), enhanced |-> FALSE, keys |-> {}]

\* lines 90-141 of get_news_by_id: the enhancement, given what
\* scrape_full_article_content returned.  [keys] are the keys put in
\* response_data["metadata"] on the way.
Enhancement(article, full, include_metadata, fc) ==
  IF full /\ IsTrue(Get(article, "url", PyNone))
  THEN IF Truthy(fc)
       THEN LET content == Get(article, "content", EmptyStr)
            IN IF content.t # "str"
               \* len(None): TypeError, caught by "except Exception as scraping_error"
               THEN [article |-> Put(article, "content_source", Api), enhanced |-> FALSE,
                     keys |-> IF include_metadata THEN {"scraping_error"} ELSE {}]
               ELSE IF Len(fc.val) > Len(content.v)
                    THEN IF include_metadata
                         THEN [article |-> Put(Put(article, "content", PyStr(fc.val)),
                                               "content_source", ScrapedMark),
                               enhanced |-> TRUE, keys |-> {"content_enhancement"}]
                         \* the else of "if include_metadata"
                         ELSE [article |-> Put(Put(article, "content", PyStr(fc.val)),
                                               "content_source", Api),
                               enhanced |-> TRUE, keys |-> {}]
                    \* the else of "if scraped_content_length > original_content_length"
                    ELSE [article |-> Put(article, "content_source", Api),
                          enhanced |-> FALSE, keys |-> {}]
       \* "if full_scraped_content" has no else
       ELSE [article |-> article, enhanced |-> FALSE, keys |-> {}]
  ELSE [article |-> Put(article, "content_source", Api), enhanced |-> FALSE, keys |-> {}]

\* the keys _generate_article_metadata returns when nothing raises
MetadataKeys == {"content_stats", "source_info", "publication_info"}

\* A publishedAt text is <<zone, wall>>: the wall-clock reading in seconds and
\* the zone suffix: "Z", an offset, "" for none, "?" for a text that is no ISO
\* date.
OffsetSeconds(zone) == IF zone = "+01:00" THEN 3600 ELSE 0

\* published_at.replace("Z", "+00:00")
ReplaceZ(text) == IF text[1] = "Z" THEN <<"+00:00", text[2]>> ELSE text

\* datetime.datetime.fromisoformat(text): ValueError on a text that is no ISO
\* date; an aware datetime when an offset is given, a naive one otherwise
FromIsoFormat(text) ==
  IF text[1] \in {"?", "Z"} THEN [raised |-> TRUE, aware |-> FALSE, utc |-> 0]
  ELSE IF text[1] = "" THEN [raised |-> FALSE, aware |-> FALSE, utc |-> text[2]]
  ELSE [raised |-> FALSE, aware |-> TRUE, utc |-> text[2] - OffsetSeconds(text[1])]

\* a timedelta of d seconds, normalised: days (floor) and 0 <= seconds < a day
TimeDelta(d) == [days |-> d \div (24 * 3600), seconds |-> d % (24 * 3600)]

NoTime == [some |-> FALSE, n |-> 0, unit |-> ""]
Ago(n, unit) == [some |-> TRUE, n |-> n, unit |-> unit]

\* lines 471-492: time_since_publication at time t (seconds, UTC);
\* subtracting a naive datetime from an aware one raises TypeError, caught
TimeSincePublication(article, t) ==
  LET published_at == Get(article, "publishedAt", PyNone)
  IN IF ~IsTrue(published_at) \/ published_at.t # "str" THEN NoTime
     ELSE LET pub_date == FromIsoFormat(ReplaceZ(published_at.v))
          IN IF pub_date.raised \/ ~pub_date.aware THEN NoTime
             ELSE LET time_diff == TimeDelta(t - pub_date.utc)
                  IN IF time_diff.days > 0 THEN Ago(time_diff.days, "days")
                     ELSE IF time_diff.seconds > 3600
                          THEN Ago(time_diff.seconds \div 3600, "hours")
                          ELSE Ago(time_diff.seconds \div 60, "minutes")

\* _generate_article_metadata(article) at time t: len(content) of a content
\* that is None raises, and the outer handler answers {"error": ...}
_generate_article_metadata(article, t) ==
  IF Get(article, "content", EmptyStr).t # "str"
  THEN [keys |-> {"error"}, time_since_publication |-> NoTime]
  ELSE [keys |-> MetadataKeys, time_since_publication |-> TimeSincePublication(article, t)]

NotFound(article_id) ==
  [status |-> 404, detail |-> <<"not found", article_id>>, article |-> NoArticle,
   enhanced |-> FALSE, metadata |-> {}]

GetNewsByIdWritingBack(article_id, full, include_metadata, fetch, redisUp) ==
  /\ \E got \in {fetch_news_by_id(store, redisUp, now, article_id)} :
     \E fc \in {scrape_full_article_content(fetch)} :
     \E e \in {Enhancement(got.article, full, include_metadata, fc)} :
       last' = [op |-> "detail", id |-> article_id, full_content |-> full,
                include_metadata |-> include_metadata,
                entry |-> store[Key(article_id)], up |-> redisUp, at |-> now,
                cached |-> got.article,
                attempted |-> got.found /\ full /\ IsTrue(Get(got.article, "url", PyNone)),
                fetch |-> IF got.found /\ full /\ IsTrue(Get(got.article, "url", PyNone))
                          THEN fetch.status ELSE "none",
                extracted |-> IF got.found /\ full /\ IsTrue(Get(got.article, "url", PyNone))
                              THEN fc ELSE None,
                response |->
                  IF ~got.found THEN NotFound(article_id)
                  ELSE [status |-> 200, detail |-> <<"cache">>, article |-> e.article,
                        enhanced |-> e.enhanced,
                        metadata |-> IF include_metadata
                                     THEN e.keys \cup _generate_article_metadata(e.article, now).keys
                                     ELSE e.keys]]
  /\ store' = IF fetch_news_by_id(store, redisUp, now, article_id).found
               THEN cache_article(store, redisUp, now, article_id,
                                  fetch_news_by_id(store, redisUp, now, article_id).article).entries
               ELSE store
  /\ UNCHANGED <<now, ticks, issued, extractVars, batchVars>>

\* GET /news/{article_id}
GetNewsById(article_id, full, include_metadata, fetch, redisUp) ==
  /\ \E got \in {fetch_news_by_id(store, redisUp, now, article_id)} :
     \E fc \in {scrape_full_article_content(fetch)} :
     \E e \in {Enhancement(got.article, full, include_metadata, fc)} :
       last' = [op |-> "detail", id |-> article_id, full_content |-> full,
                include_metadata |-> include_metadata,
                entry |-> store[Key(article_id)], up |-> redisUp, at |-> now,
                cached |-> got.article,
                attempted |-> got.found /\ full /\ IsTrue(Get(got.article, "url", PyNone)),
                fetch |-> IF got.found /\ full /\ IsTrue(Get(got.article, "url", PyNone))
                          THEN fetch.status ELSE "none",
                extracted |-> IF got.found /\ full /\ IsTrue(Get(got.article, "url", PyNone))
                              THEN fc ELSE None,
                response |->
                  IF ~got.found THEN NotFound(article_id)
                  ELSE [status |-> 200, detail |-> <<"cache">>, article |-> e.article,
                        enhanced |-> e.enhanced,
                        metadata |-> IF include_metadata
                                     THEN e.keys \cup _generate_article_metadata(e.article, now).keys
                                     ELSE e.keys]]
  /\ UNCHANGED <<store, now, ticks, issued, extractVars, batchVars>>

\* the clock of the backend moves on: the callers come back a second before an
\* entry written at the start would expire, and a second later
Tick ==
  /\ ticks < MaxTicks
  /\ now' = now + (IF ticks % 2 = 0 THEN REDIS_ARTICLES_TTL - 1 ELSE 1)
  /\ ticks' = ticks + 1
  /\ UNCHANGED <<store, issued, last, extractVars, batchVars>>

\* another client of the backend leaves a value that is not JSON under a key
ForeignWrite(article_id) ==
  /\ store[Key(article_id)].live
  /\ store[Key(article_id)].text.wellformed
  /\ store' = SetEx(store, Key(article_id), REDIS_ARTICLES_TTL,
                    [wellformed |-> FALSE, object |-> NoArticle], now, "foreign", NoArticle)
  /\ UNCHANGED <<now, ticks, issued, last, extractVars, batchVars>>

Init ==
  /\ store = [k \in {Key(id) : id \in Ids} |-> NoEntry]
  /\ now = 0
  /\ ticks = 0
  /\ issued = {}
  /\ last = [op |-> "none"]
  /\ ExtractIdle
  /\ BatchIdle

\* every call finds the backend reachable or not: redisUp
Next ==
  \/ \E feed \in Feeds : \E redisUp \in BOOLEAN : FetchNews("ok", feed, redisUp)
  \/ \E upstream \in {"status_error", "request_error"} : FetchNews(upstream, <<>>, TRUE)
  \/ \E id \in Ids : \E data \in PutData : \E redisUp \in BOOLEAN :
       CacheArticle(id, data, redisUp)
  \/ \E id \in Ids : \E redisUp \in BOOLEAN : GetCachedArticle(id, redisUp)
  \/ \E id \in Ids : \E full, include_metadata \in BOOLEAN :
       \E fetch \in IF full THEN Web ELSE {f \in Web : f.status = "timeout"} : \E redisUp \in BOOLEAN :
         GetNewsById(id, full, include_metadata, fetch, redisUp)
  \/ Tick
  \/ \E id \in Ids : ForeignWrite(id)

Spec == Init /\ [][Next]_vars

-----------------------------------------------------------------------------
(* _generate_article_metadata on its own: one article, one call *)

Window == 10

\* the time of the call, three days after the epoch of the model
CallTime == 3 * 24 * 3600

\* the ages of the articles: around now, a minute, an hour, two hours, a day
\* and two days (an age below zero is a date still to come)
Ages == {b + d : b \in {0, 60, 3600, 2 * 3600, 24 * 3600, 2 * 24 * 3600}, d \in (0 - Window)..Window}

\* publishedAt as the upstream writes it ("...Z"), with an offset, without a
\* zone, and a text that is no date
PublishedTexts ==
  {<<"Z", CallTime - age>> : age \in Ages}
    \cup {<<"+01:00", CallTime - age + 3600>> : age \in Ages}
    \cup {<<"", CallTime - age>> : age \in {0, 3600}}
    \cup {<<"?", 0>>}

MetadataArticles ==
  {[k \in {"content", "publishedAt"} |-> IF k = "content" THEN PyStr(Short) ELSE PyStr(text)] :
     text \in PublishedTexts}
    \cup {[k \in {"content", "publishedAt"} |-> IF k = "content" THEN PyStr(Short) ELSE v] :
            v \in {PyNone, EmptyStr, PyObj}}
    \cup {[k \in {"content"} |-> PyStr(Short)]}
    \cup {[k \in {"content", "publishedAt"} |->
             IF k = "content" THEN PyNone ELSE PyStr(<<"Z", CallTime - 2 * 3600>>)]}

MetadataInit ==
  /\ store = <<>>
  /\ now = CallTime
  /\ ticks = 0
  /\ issued = {}
  /\ last = [op |-> "none"]
  /\ ExtractIdle
  /\ BatchIdle

GenerateArticleMetadata(article) ==
  /\ \E r \in {_generate_article_metadata(article, now)} :
       last' = [op |-> "metadata", article |-> article, at |-> now, keys |-> r.keys,
                time_since_publication |-> r.time_since_publication]
  /\ UNCHANGED <<store, now, ticks, issued, extractVars, batchVars>>

MetadataNext == \E article \in MetadataArticles : GenerateArticleMetadata(article)

MetadataSpec == MetadataInit /\ [][MetadataNext]_vars

-----------------------------------------------------------------------------
(* Article metadata: what is checked *)

\* the seconds from the moment publishedAt names to the call
Elapsed ==
  last.at - (last.article["publishedAt"].v[2] - OffsetSeconds(last.article["publishedAt"].v[1]))

\* the publishedAt of the last call is a text with a zone that fromisoformat
\* reads, and the moment it names is not after the call
PublishedBefore ==
  /\ last.op = "metadata"
  /\ "publishedAt" \in DOMAIN last.article
  /\ last.article["publishedAt"].t = "str"
  /\ last.article["publishedAt"].v # <<>>
  /\ last.article["publishedAt"].v[1] \in {"Z", "+01:00"}
  /\ last.article["content"].t = "str"
  /\ Elapsed >= 0

\* C15 (as claimed): time_since_publication is the elapsed time in days when a
\* full day or more has elapsed, otherwise in hours when a full hour or more
\* has elapsed, otherwise in minutes; a publishedAt that is missing or cannot
\* be parsed gives no value and no error.
C15_LargestNonzeroUnit ==
  last.op = "metadata" =>
    /\ PublishedBefore =>
         last.time_since_publication =
           IF Elapsed >= 24 * 3600 THEN Ago(Elapsed \div (24 * 3600), "days")
           ELSE IF Elapsed >= 3600 THEN Ago(Elapsed \div 3600, "hours")
           ELSE Ago(Elapsed \div 60, "minutes")
    /\ ("publishedAt" \notin DOMAIN last.article
          \/ ~IsTrue(last.article["publishedAt"])
          \/ (last.article["publishedAt"].t = "str" /\ last.article["publishedAt"].v[1] = "?")) =>
         (last.time_since_publication = NoTime /\ "error" \notin last.keys)

-----------------------------------------------------------------------------
(* Batch enhancement: what is checked *)

InFlight == {i \in 1..N : task[i] = "scraping"}

HasUrl(article) == IsTrue(Get(article, "url", EmptyStr))

\* the extractor was called for article i and gave a text strictly longer than
\* the content the article came with (a content that is None has no length)
LongerText(i) ==
  /\ HasUrl(original[i])
  /\ full_content[i].called
  /\ Truthy(full_content[i].out)
  /\ Get(original[i], "content", EmptyStr).t = "str"
  /\ Len(full_content[i].out.val) > Len(Get(original[i], "content", EmptyStr).v)

\* the extraction for article i ended without a text
ExtractionFailed(i) == full_content[i].called /\ ~Truthy(full_content[i].out)

\* C3: at every moment of enhance_articles_with_full_content the number of
\* extractions in flight is at most the concurrency limit, each of them holding
\* one slot of the semaphore; a task that has not started stays so while no slot
\* is free.
C3_InFlightWithinLimit ==
  /\ Cardinality(InFlight) <= max_concurrent
  /\ semaphore = max_concurrent - Cardinality(InFlight)
  /\ semaphore >= 0

\* C3 witness: the limit is reached while an article with a url still waits.
C3_LimitReachedWhileWaiting ==
  /\ max_concurrent >= 1
  /\ Cardinality(InFlight) = max_concurrent
  /\ \E i \in 1..N : task[i] = "created" /\ HasUrl(articles[i])

\* C4: the batch eventually returns; the returned list then has exactly one
\* entry per input article, in one-to-one correspondence; an article whose
\* extraction failed carries its original content and the marker api; and an
\* article whose own extraction gave a longer text carries that text whatever
\* happened to the others.
C4_ReturnsEveryArticleOnce ==
  /\ <>(result.returned)
  /\ [](result.returned =>
          /\ Len(result.list) = N
          /\ \A i \in 1..N : Cardinality({k \in 1..Len(result.list) : result.list[k] = i}) = 1
          /\ \A i \in 1..N : ExtractionFailed(i) =>
               /\ Get(articles[i], "content", EmptyStr) = Get(original[i], "content", EmptyStr)
               /\ Get(articles[i], "content_source", PyNone) = Api
          /\ \A i \in 1..N : LongerText(i) =>
               /\ articles[i]["content"] = PyStr(full_content[i].out.val)
               /\ articles[i]["content_source"] = ScrapedMark)

\* C4 witness: a returned batch in which one extraction failed, one article took
\* the except clause and another was replaced.
C4_ReturnedWithFailureAndSuccess ==
  /\ result.returned
  /\ \E i, j, k \in 1..N :
       /\ ExtractionFailed(i)
       /\ LongerText(j)
       /\ Truthy(full_content[k].out) /\ original[k]["content"] = PyNone

\* C5: in the output, an article is marked scraped exactly when it has a url and
\* the extractor gave a text strictly longer than its original content, and then
\* its content is that text; otherwise its content is the original one and it is
\* marked api.  Without a url the extractor is never called.
C5_ScrapedIffStrictlyLonger ==
  result.returned =>
    \A k \in 1..Len(result.list) :
      LET i == result.list[k]
      IN /\ ~HasUrl(original[i]) => ~full_content[i].called
         /\ IF LongerText(i)
            THEN /\ articles[i]["content"] = PyStr(full_content[i].out.val)
                 /\ articles[i]["content_source"] = ScrapedMark
            ELSE /\ Get(articles[i], "content", EmptyStr) = Get(original[i], "content", EmptyStr)
                 /\ articles[i]["content_source"] = Api

\* C5 witness: a returned batch with an article without url, a tie (212 against
\* 212), a shorter text (201 against 212) and a replacement.
C5_ReturnedWithEveryCase ==
  /\ result.returned
  /\ \E i \in 1..N : ~HasUrl(original[i])
  /\ \E i \in 1..N : Truthy(full_content[i].out) /\ original[i]["content"].t = "str"
                     /\ Len(full_content[i].out.val) = Len(original[i]["content"].v)
  /\ \E i \in 1..N : LongerText(i)

\* C16: the list enhance_articles_with_full_content returns holds the articles
\* in the order of the input list, whatever the order in which the extractions
\* finished; its entries are the dicts of the input list themselves, so the
\* caller's list shows the content and the marker the call has set.
C16_OutputInInputOrder ==
  result.returned =>
    /\ \A k \in 1..Len(result.list) : result.list[k] \in 1..N
    /\ \A k, l \in 1..Len(result.list) : k < l => result.list[k] < result.list[l]
    /\ \A k \in 1..Len(result.list) :
         LET i == result.list[k]
         IN /\ "content_source" \in DOMAIN articles[i]
            /\ "content_source" \notin DOMAIN original[i]
            /\ LongerText(i) => articles[i]["content"] = PyStr(full_content[i].out.val)

\* C16 witness: the batch has returned, and a later article of the input
\* finished its extraction before an earlier one.
C16_FinishedOutOfOrder ==
  /\ result.returned
  /\ \E i, j \in 1..N :
       /\ i < j
       /\ full_content[i].called /\ full_content[j].called
       /\ gathered[j].seq < gathered[i].seq
       /\ \E k, l \in 1..Len(result.list) : k < l /\ result.list[k] = i /\ result.list[l] = j

-----------------------------------------------------------------------------
(* The extractor: what is checked *)

\* the ld+json blocks of the page that hold an articleBody longer than 200
LongArticleBodies(page) ==
  SelectSeq(page.scripts,
            LAMBDA sc : /\ sc.type = "application/ld+json"
                        /\ sc.json = "object"
                        /\ sc.object.articleBody.some
                        /\ Len(sc.object.articleBody.val) > 200)

\* C10 (as claimed): when the fetched page embeds a JSON-LD block whose
\* articleBody is longer than 200 characters, the structured-data strategy is the
\* one that supplies the candidate, and the candidate is that articleBody.
C10_JsonLdArticleBodyWins ==
  (scraped.done /\ fetched.status = "ok" /\ LongArticleBodies(fetched.page) # <<>>) =>
     /\ scraped.by = 1
     /\ scraped.candidate = LongArticleBodies(fetched.page)[1].object.articleBody

\* the page the density strategy is given
DensitySoup == CleanSoup(Soup(fetched.page))

\* the div/section/article elements with at least two paragraphs (their
\* children, or all the paragraphs inside when no child is one)
Eligible ==
  {c \in 1..Len(DensitySoup.body) :
     /\ c \notin DensitySoup.gone
     /\ DensitySoup.body[c].tag \in {"div", "section", "article"}
     /\ Len(DensityParagraphs(DensitySoup, c)) >= 2}

\* the first container, in document order, whose score no other one exceeds
Best ==
  CHOOSE c \in Eligible :
    /\ \A d \in Eligible : Score(DensitySoup, d) <= Score(DensitySoup, c)
    /\ \A d \in Eligible : d < c => Score(DensitySoup, d) < Score(DensitySoup, c)

\* the text _extract_paragraphs makes of all the paragraphs inside it
BestText == _extract_paragraphs(DensitySoup, ParagraphsUnder(DensitySoup, Best))

\* C14 (as claimed): the strategy takes the eligible container with the highest
\* score, the first one on a tie, and accepts its text whenever the text has at
\* least 200 characters.
C14_AcceptsFrom200 ==
  scraped.done =>
    scraped.candidate = IF Eligible # {} /\ Len(BestText) >= 200 THEN Some(BestText) ELSE None

\* C14 (amended): the strategy takes the eligible container with the highest
\* score, the first one on a tie, and accepts its text whenever the text has
\* more than 200 characters; otherwise, and when no container is eligible, it
\* returns None.
C14_AcceptsAbove200 ==
  scraped.done =>
    scraped.candidate = IF Eligible # {} /\ Len(BestText) > 200 THEN Some(BestText) ELSE None

\* C14 witness: two eligible containers with the same score, and the text of
\* the first is the one returned.
C14_TieTakesFirst ==
  /\ scraped.done
  /\ \E c, d \in Eligible : c < d /\ Score(DensitySoup, c) = Score(DensitySoup, d)
                                  /\ Best = c
                                  /\ ~IsUnder(DensitySoup.body, d, c)
  /\ Truthy(scraped.candidate)
  /\ scraped.candidate.val[1] = "a"

\* C11: a text returned by scrape_article_content is the candidate of the
\* deciding strategy after _clean_content, and it has more than 100 characters;
\* when the cleaned candidate has 100 characters or fewer, or no strategy gave a
\* candidate, the call returns None (the strategies after the deciding one are
\* not consulted).
C11_ReturnedTextLongerThan100 ==
  scraped.done =>
    /\ Truthy(scraped.returns) =>
         /\ Len(scraped.returns.val) > 100
         /\ Truthy(scraped.candidate)
         /\ scraped.returns.val = _clean_content(scraped.candidate.val)
    /\ (~Truthy(scraped.candidate) \/ Len(_clean_content(scraped.candidate.val)) <= 100) =>
         scraped.returns = None

\* C11 witness: the semantic strategy gives a candidate of more than 200
\* characters that _clean_content cuts down to 100 or fewer, and the call
\* returns None.
C11_ShortAfterCleaningGivesNone ==
  /\ scraped.done
  /\ scraped.by = 3
  /\ Truthy(scraped.candidate)
  /\ Len(scraped.candidate.val) > 200
  /\ Len(_clean_content(scraped.candidate.val)) <= 100
  /\ scraped.returns = None

-----------------------------------------------------------------------------
(* The detail lookup: what is checked *)

\* the content the cached article came with
CachedContent == Get(last.cached, "content", EmptyStr)

\* the lookup attempted the enhancement and the extractor gave a text strictly
\* longer than the content of the cached article
DetailLonger ==
  /\ last.op = "detail"
  /\ last.attempted
  /\ Truthy(last.extracted)
  /\ CachedContent.t = "str"
  /\ Len(last.extracted.val) > Len(CachedContent.v)

\* C1 (as claimed): when the enhancement is attempted and the extractor gives a
\* text strictly longer than the existing content, the article returned by
\* get_news_by_id has that text as content and content_source = scraped, with
\* include_metadata true and with include_metadata false.
C1_LongerTextIsMarkedScraped ==
  DetailLonger =>
    /\ Get(last.response.article, "content", PyNone) = PyStr(last.extracted.val)
    /\ Get(last.response.article, "content_source", PyNone) = ScrapedMark

\* C2 (as claimed): when the enhancement is attempted and does not replace the
\* content (no text from the extractor, a text that is not longer, or an
\* exception), the article returned by get_news_by_id has its content unchanged
\* and holds content_source = api.
C2_UnreplacedIsMarkedApi ==
  (last.op = "detail" /\ last.attempted /\ ~DetailLonger) =>
    /\ Get(last.response.article, "content", EmptyStr) = CachedContent
    /\ Get(last.response.article, "content_source", PyNone) = Api

\* C12: when the fetch of the target page fails (transport error, timeout,
\* status of 400 or more) or the extraction raises or finds nothing,
\* scrape_full_article_content returns None and raises nothing; the detail
\* lookup of a cached article is then answered 200 with the article and the
\* content it had in the cache.
C12_FailedEnhancementStillAnswers ==
  (last.op = "detail" /\ last.attempted /\ (last.fetch # "ok" \/ ~Truthy(last.extracted))) =>
    /\ last.extracted = None
    /\ last.response.status = 200
    /\ Get(last.response.article, "content", EmptyStr) = CachedContent
    /\ \A key \in DOMAIN last.cached \ {"content_source"} :
         last.response.article[key] = last.cached[key]

\* C12 witness: the target page answers with an error status while a cached
\* article with a content of 50 characters is looked up.
C12_LookupWithFailedFetch ==
  /\ last.op = "detail"
  /\ last.attempted
  /\ last.fetch = "http_error"
  /\ CachedContent = PyStr(Short)
  /\ last.response.status = 200

\* C13: a detail request writes nothing to the cache: the step of
\* get_news_by_id leaves every entry as it was, whether or not the content was
\* replaced in the answer; and what a detail request reads under an id that
\* ingestion wrote is the snapshot ingestion stored, with the expiry it was
\* given then.
C13_DetailLeavesCacheAlone ==
  /\ [][(last' # last /\ last'.op = "detail") => store' = store]_vars
  /\ []((last.op = "detail" /\ last.up /\ last.entry.live /\ last.entry.by = "feed"
         /\ last.at < last.entry.expires) =>
          /\ last.cached = last.entry.value
          /\ last.entry.expires = last.entry.at + REDIS_ARTICLES_TTL)

\* C13 witness: a detail request that answered with replaced content, and the
\* entry under its id is still the one ingestion wrote.
C13_EnhancedLookupOfIngested ==
  /\ last.op = "detail"
  /\ last.response.status = 200
  /\ last.response.enhanced
  /\ last.entry.by = "feed"
  /\ store[Key(last.id)] = last.entry
  /\ Loads(store[Key(last.id)].text).value = last.cached
  /\ Loads(store[Key(last.id)].text).value["content"] # last.response.article["content"]

-----------------------------------------------------------------------------
(* The cache: what is checked *)

\* the read of the last "get" reached the backend and found, under its key, an
\* entry written by cache_article or cache_articles_batch
ReadOfWrittenEntry ==
  /\ last.op = "get"
  /\ last.up
  /\ last.entry.live
  /\ last.entry.by \in {"put", "feed"}

\* C6: a get that reaches the backend less than REDIS_ARTICLES_TTL seconds
\* after the last write to its key returns a value equal to the one written; a
\* get REDIS_ARTICLES_TTL seconds or more after that write returns none; and a
\* key that can be read stops being readable only by the passing of time up to
\* its expiry (no step of the program removes an entry).
C6_RoundTripUntilExpiry ==
  /\ [](ReadOfWrittenEntry =>
          IF last.at < last.entry.at + REDIS_ARTICLES_TTL
          THEN last.found /\ last.article = last.entry.value
          ELSE ~last.found)
  /\ [][\A key \in DOMAIN store :
          (~RedisGet(store, key, now).nil /\ RedisGet(store', key, now').nil) =>
             (now' > now /\ now' >= store[key].expires /\ store'[key] = store[key])]_vars

\* C6 witness: an article whose content is None, written by cache_article, is
\* read back one second before its TTL has elapsed.
C6_ReadJustBeforeExpiry ==
  /\ ReadOfWrittenEntry
  /\ last.entry.by = "put"
  /\ last.entry.value["content"] = PyNone
  /\ last.at = last.entry.at + REDIS_ARTICLES_TTL - 1
  /\ last.found

\* the conditions under which a read of the key has nothing to give
Absent(entry) == ~entry.live
Expired(entry, t) == entry.live /\ t >= entry.expires
Corrupt(entry, t) == entry.live /\ t < entry.expires /\ ~entry.text.wellformed

Miss ==
  \/ ~last.up
  \/ Absent(last.entry)
  \/ Expired(last.entry, last.at)
  \/ Corrupt(last.entry, last.at)

\* C7: get_cached_article never raises; when the key is absent, expired or
\* holds a value that is not JSON, or the backend cannot be reached, it returns
\* none, and get_news_by_id then answers with the same 404 it gives for an id
\* that never existed.
C7_MissIsNoneAndNotFound ==
  /\ last.op = "get" => (~last.raised /\ (Miss => ~last.found))
  /\ last.op = "detail" => (Miss => last.response = NotFound(last.id))

\* C7 witness: the detail lookup of a key that holds an unexpired value that is
\* not JSON, with the backend reachable, is answered 404.
C7_CorruptEntryLookedUp ==
  /\ last.op = "detail"
  /\ last.up
  /\ Corrupt(last.entry, last.at)
  /\ last.response.status = 404

\* C8: cache_article raises when the backend cannot be reached or the data
\* cannot be serialised; cache_articles_batch raises when it has articles to
\* write and the backend cannot be reached, and GET /news then does not answer
\* with success.
C8_WriteFailureIsRaised ==
  /\ (last.op = "put" /\ (~last.up \/ Dumps(last.data).raised)) => last.raised
  /\ (last.op = "feed" /\ Dicts(last.feed) # <<>> /\ ~last.up) =>
       (last.cache_raised /\ last.raised /\ last.status # 200)

\* C8 witness: a feed of two article objects arrives while the backend cannot
\* be reached, and the request ends in a 500.
C8_FeedWhileUnreachable ==
  /\ last.op = "feed"
  /\ ~last.up
  /\ Len(Dicts(last.feed)) = 2
  /\ last.status = 500

\* what a successful ingestion leaves in the cache, apart from content_source
IngestedEntries ==
  LET k == Len(Dicts(last'.feed))
      ids == last'.ids
  IN /\ Len(ids) = k
     /\ \A a, b \in 1..k : a # b => ids[a] # ids[b]
     /\ \A a \in 1..k : ids[a] \notin issued
     /\ \A a \in 1..k :
          LET entry == store'[Key(ids[a])]
          IN /\ entry.live /\ entry.by = "feed" /\ entry.at = now
             /\ entry.expires = now + REDIS_ARTICLES_TTL
             /\ ~Loads(entry.text).raised
             /\ Loads(entry.text).value["id"] = PyStr(ids[a])
             /\ Get(Loads(entry.text).value, "content", PyNone)
                  = Get(Dicts(last'.feed)[a].article, "content", PyNone)
     /\ \A key \in DOMAIN store :
          (\A a \in 1..k : key # Key(ids[a])) => store'[key] = store[key]

\* a GET /news that wrote its articles to the cache
Ingestion == last' # last /\ last'.op = "feed" /\ last'.status = 200

\* C9 (as claimed): a feed with k article objects creates exactly k entries,
\* each under "article:" + an id that is new and distinct from every other,
\* and each stored snapshot carries the article's original content and
\* content_source == "api".
C9_SnapshotsMarkedApi ==
  [][Ingestion =>
       /\ IngestedEntries
       /\ \A a \in 1..Len(last'.ids) :
            Get(Loads(store'[Key(last'.ids[a])].text).value, "content_source", PyNone) = Api]_vars

\* C9 (amended): a feed with k article objects, written to the cache, creates
\* exactly k entries, each under "article:" + an id that is new and distinct
\* from every other, also for an article that occurs again; each stored snapshot
\* is the upstream article with its id, so it carries the original content and
\* a content_source only if the upstream sent one (none does here).
C9_SnapshotsAreUpstreamArticles ==
  [][Ingestion =>
       /\ IngestedEntries
       /\ \A a \in 1..Len(last'.ids) :
            /\ Loads(store'[Key(last'.ids[a])].text).value
                 = Put(Dicts(last'.feed)[a].article, "id", PyStr(last'.ids[a]))
            /\ "content_source" \notin DOMAIN Loads(store'[Key(last'.ids[a])].text).value]_vars

\* C9 witness: the same article twice in one feed, stored under two ids.
C9_SameArticleTwice ==
  /\ last.op = "feed"
  /\ last.status = 200
  /\ Len(last.ids) = 2
  /\ Dicts(last.feed)[1] = Dicts(last.feed)[2]
  /\ store[Key(last.ids[1])].live /\ store[Key(last.ids[2])].live
  /\ last.ids[1] # last.ids[2]

=============================================================================
